---- MODULE Spec2Model ----
(***************************************************************************)
(* Retrieval and reranking engine of the RAG service: the vector store     *)
(* adapter (app/services/vector_store.py), the cross-encoder reranker      *)
(* (app/services/reranker.py), the chunker (app/services/chunker.py), the  *)
(* RAG chain (app/services/rag_chain.py) and the ingest route              *)
(* (app/routes/ingest.py).                                                 *)
(*                                                                         *)
(* Specifications.  Spec: the index operations one after the other, the    *)
(* server answering.  SpecRerank: rerank and compare_rankings on drawn     *)
(* candidates.  SpecLazy: threads in the getters of the lazy singletons.   *)
(* SpecConcurrent: an ingestion run and a search interleaved.              *)
(* SpecBackend: the index operations with a server that may not answer.    *)
(* SpecChunker: the settings and create_chunks on texts of characters.     *)
(* SpecCompare: compare_rankings on two drawn lists.                       *)
(*                                                                         *)
(* Numbers.  Scores, distances and raw cross-encoder outputs are floats in *)
(* the code.  Here they are fixed-point integers in units of 10^-4:        *)
(* score 1.0 is 10000, distance 2.0 is 20000, raw score -5.0 is -50000.    *)
(* A value that is about to be passed to round(x, 4) is carried in units   *)
(* of 10^-5, so that the rounding has a digit to round away.               *)
(***************************************************************************)
EXTENDS Integers, Sequences, FiniteSets, TLC

VARIABLES
    settings_top_k, \* settings.top_k, read from the environment at import
    collection,     \* the Chroma collection "documents": exists, entries
    cleared,        \* history: what the last clear_collection found, "no"
                    \* once an entry was added after it
    call,           \* the last completed operation: arguments and results
    globals,        \* the module-level singletons _model, _reranker, _client
    threads         \* the calls in progress, one record per thread

vars == <<settings_top_k, collection, cleared, call, globals, threads>>

(***************************************************************************)
(* Bounds of the model.                                                    *)
(***************************************************************************)
MaxCandidates == 3   \* longest candidate list handed to rerank
MaxK == 3            \* largest top_k / final_k argument
MaxChunkId == 1      \* chunk ids of the rerank candidates are 0..MaxChunkId
MaxDocs == 2         \* most documents load_documents returns

\* settings.top_k: default 5, overridable by the environment variable TOP_K.
DefaultTopK == 5
TopKSettings == {2, DefaultTopK}

\* The texts of chunks and candidates.
Contents == {"t0", "t1"}

\* The lazily created singletons, named by their getters.  instance is 0
\* for None and else the number of the object the global holds;
\* constructed counts the executions of the constructor; tested is the
\* history of the index clients on which heartbeat() has returned.
Getters == {"get_embedding_model", "get_reranker", "get_chroma_client"}

NoGlobals ==
    [instance |-> [g \in Getters |-> 0], constructed |-> [g \in Getters |-> 0],
     tested |-> {}]

\* No call in progress.
NoThreads == <<>>

\* The score 1.0 in units of 10^-4, the 4 digits round(x, 4) keeps.
ONE == 10000

(***************************************************************************)
(* Helpers over sequences.                                                 *)
(***************************************************************************)
SeqsUpTo(S, n) == UNION {[1..m -> S] : m \in 0..n}

\* Python's seq[:k] for k >= 0.
Take(s, k) == SubSeq(s, 1, IF k < Len(s) THEN k ELSE Len(s))

Abs(x) == IF x < 0 THEN -x ELSE x

(***************************************************************************)
(* round(x, 4): x is given in units of 10^-5, the result is in units of    *)
(* 10^-4.  Ties go to the even neighbour, as Python rounds a decimal tie.  *)
(***************************************************************************)
round4(x5) ==
    LET q == x5 \div 10
        r == x5 % 10
    IN  IF r < 5 THEN q
        ELSE IF r > 5 THEN q + 1
        ELSE IF q % 2 = 0 THEN q ELSE q + 1

(***************************************************************************)
(* SearchResult (vector_store.py): content, doc_name, chunk_id, page,      *)
(* score.                                                                  *)
(***************************************************************************)
SearchResult(content, doc_name, chunk_id, page, score) ==
    [content |-> content, doc_name |-> doc_name, chunk_id |-> chunk_id,
     page |-> page, score |-> score]

(***************************************************************************)
(* reranker.py                                                             *)
(***************************************************************************)

\* k = top_k or settings.top_k : 0 is falsy and selects the default.
or_default(top_k, default) == IF top_k # 0 THEN top_k ELSE default

\* if len(results) <= k: return results
\* (fewer_strict: the comparison written as <)
fewer_strict(results, k) == Len(results) < k

fewer_than_requested(results, k) == Len(results) <= k

\* max(0.0, min(1.0, (score + 5) / 10)), in units of 10^-5.
\* score is in units of 10^-4, so (score + 5) / 10 is score + 50000 there.
min_(a, b) == IF b < a THEN b ELSE a

max_(a, b) == IF b > a THEN b ELSE a

\* (normalized_unclamped: the same without max and min)
normalized_unclamped(score) == score + 5 * ONE

normalized_score(score) == max_(0, min_(10 * ONE, score + 5 * ONE))

\* SearchResult(content=..., doc_name=..., chunk_id=..., page=...,
\*              score=round(normalized_score, 4))
\* (rescored_page_lost: the same with the page argument left at 0)
rescored_page_lost(result, score) ==
    SearchResult(result.content, result.doc_name, result.chunk_id, 0,
                 round4(normalized_score(score)))

rescored(result, score) ==
    SearchResult(result.content, result.doc_name, result.chunk_id, result.page,
                 round4(normalized_score(score)))

\* reranked_results.sort(key=lambda x: x.score, reverse=True)
\* list.sort is stable, also with reverse=True: equal keys keep their order.
RECURSIVE insert_desc(_, _)
insert_desc(x, sorted) ==
    IF sorted = <<>> THEN <<x>>
    ELSE IF Head(sorted).score >= x.score
         THEN <<Head(sorted)>> \o insert_desc(x, Tail(sorted))
         ELSE <<x>> \o sorted

RECURSIVE sort_by_score_desc(_)
sort_by_score_desc(s) ==
    IF s = <<>> THEN <<>>
    ELSE insert_desc(s[Len(s)], sort_by_score_desc(SubSeq(s, 1, Len(s) - 1)))

\* rerank(query, results, top_k).  predict is the cross-encoder for the
\* query of the call: the raw score of a (query, content) pair, by content.
\* The result records what the call returned, the raw scores predict gave,
\* the rescored list before the sort, and how often predict was called.
rerank(results, top_k, predict, default) ==
    IF results = <<>>
    THEN [ret |-> <<>>, scores |-> <<>>, reranked_results |-> <<>>,
          predict_calls |-> 0]
    ELSE LET k == or_default(top_k, default) IN
         IF fewer_than_requested(results, k)
         THEN [ret |-> results, scores |-> <<>>, reranked_results |-> <<>>,
               predict_calls |-> 0]
         ELSE LET scores == [i \in DOMAIN results |-> predict[results[i].content]]
                  reranked_results ==
                      [i \in DOMAIN results |-> rescored(results[i], scores[i])]
                  final_results == Take(sort_by_score_desc(reranked_results), k)
              IN  [ret |-> final_results, scores |-> scores,
                   reranked_results |-> reranked_results, predict_calls |-> 1]

(***************************************************************************)
(* document_loader.py and chunker.py                                       *)
(*                                                                         *)
(* A document's content is the sequence of its paragraphs.  In the model   *)
(* every paragraph fits one chunk and no two fit together, so the splitter *)
(* (RecursiveCharacterTextSplitter, first separator "\n\n") yields one     *)
(* piece per paragraph; a blank paragraph is stripped to nothing and       *)
(* yields no piece.                                                        *)
(***************************************************************************)
Document(content, doc_name, page) ==
    [content |-> content, metadata |-> [doc_name |-> doc_name, page |-> page]]

Blank == ""

\* splitter.split_text(doc.content)
split_text(content) == SelectSeq(content, LAMBDA piece : piece # Blank)

Chunk(text, doc_metadata, chunk_id) ==
    [content |-> text,
     metadata |-> [doc_name |-> doc_metadata.doc_name,
                   page |-> doc_metadata.page, chunk_id |-> chunk_id]]

\* chunk_id = 0 is set once, before the loop over the documents: the id a
\* document's first chunk gets is the counter the earlier documents left.
\* (first_id_restarts: the counter set to 0 inside the loop)
first_id_restarts(chunk_id) == 0

first_id_of_document(chunk_id) == chunk_id

\* The chunks of one document, numbered from chunk_id on.
chunks_of(doc, chunk_id) ==
    LET text_chunks == split_text(doc.content)
    IN  [i \in DOMAIN text_chunks |->
            Chunk(text_chunks[i], doc.metadata, chunk_id + i - 1)]

\* The loop "for doc in documents" of create_chunks, from a counter value.
RECURSIVE chunk_loop(_, _)
chunk_loop(documents, chunk_id) ==
    IF documents = <<>> THEN <<>>
    ELSE LET mine == chunks_of(Head(documents), first_id_of_document(chunk_id))
         IN  mine \o chunk_loop(Tail(documents), chunk_id + Len(mine))

create_chunks(documents) == chunk_loop(documents, 0)

(***************************************************************************)
(* embeddings.py: the embedding of a text is a function of the text.       *)
(***************************************************************************)
embed_query(text) == <<"vec", text>>

embed_texts(texts) == [i \in DOMAIN texts |-> embed_query(texts[i])]

(***************************************************************************)
(* vector_store.py                                                         *)
(***************************************************************************)
NoCollection == [exists |-> FALSE, entries |-> <<>>]

\* client.get_or_create_collection(name=..., metadata={"description": ...}):
\* the collection keeps its entries, and exists afterwards.  No "hnsw:space"
\* is given, so the collection is created with Chroma's default metric,
\* the squared L2 distance.
CollectionSpace == "l2"

get_collection(coll) == [exists |-> TRUE, entries |-> coll.entries]

\* Distances the index can report, in units of 10^-4.  The cosine distance
\* lies in [0, 2]; the squared L2 distance of two unit vectors lies in
\* [0, 4].
DistanceValues(space) ==
    IF space = "cosine" THEN {0, 9999, 20000} ELSE {0, 9999, 20000, 30000}

Distances == DistanceValues(CollectionSpace)

\* ids = [f"chunk_{chunk.metadata['chunk_id']}" for chunk in chunks]
chunk_key(chunk) == <<"chunk", chunk.metadata.chunk_id>>

IndexEntry(id, embedding, document, metadata) ==
    [id |-> id, embedding |-> embedding, document |-> document,
     metadata |-> metadata]

StoredIds(entries) == {entries[i].id : i \in DOMAIN entries}

\* collection.add(ids, embeddings, documents, metadatas) for ids that are
\* pairwise distinct.  An id the collection already holds is not written
\* again: the stored entry stays as it is.  Depending on the Chroma release
\* the call then returns normally or raises; raises_on_duplicate says which.
add(entries, new_entries) ==
    LET ids == StoredIds(entries)
    IN  entries \o SelectSeq(new_entries, LAMBDA e : e.id \notin ids)

\* add_chunks(chunks): [collection, raised, ret]
add_chunks(coll, chunks, raises_on_duplicate) ==
    IF chunks = <<>>
    THEN [collection |-> coll, raised |-> FALSE, ret |-> 0]
    ELSE LET c == get_collection(coll)
             texts == [i \in DOMAIN chunks |-> chunks[i].content]
             metadatas == [i \in DOMAIN chunks |-> chunks[i].metadata]
             ids == [i \in DOMAIN chunks |-> chunk_key(chunks[i])]
             embeddings == embed_texts(texts)
             new_entries ==
                 [i \in DOMAIN chunks |->
                     IndexEntry(ids[i], embeddings[i], texts[i], metadatas[i])]
             duplicate == \E i \in DOMAIN ids : ids[i] \in StoredIds(c.entries)
         IN  IF duplicate /\ raises_on_duplicate
             THEN [collection |-> c, raised |-> TRUE, ret |-> 0]
             ELSE [collection |-> [exists |-> TRUE,
                                   entries |-> add(c.entries, new_entries)],
                   raised |-> FALSE, ret |-> Len(chunks)]

\* collection.query(query_embeddings=[q], n_results=k, include=[...]):
\* the k nearest entries, nearest first; entries at the same distance come
\* in the order the index holds them.  distance_to gives the distance of
\* the query embedding to the embedding of a text.
RECURSIVE insert_asc(_, _)
insert_asc(x, sorted) ==
    IF sorted = <<>> THEN <<x>>
    ELSE IF Head(sorted).distance <= x.distance
         THEN <<Head(sorted)>> \o insert_asc(x, Tail(sorted))
         ELSE <<x>> \o sorted

RECURSIVE sort_by_distance(_)
sort_by_distance(s) ==
    IF s = <<>> THEN <<>>
    ELSE insert_asc(s[Len(s)], sort_by_distance(SubSeq(s, 1, Len(s) - 1)))

query(entries, distance_to, n_results) ==
    LET hits == [i \in DOMAIN entries |->
                    [document |-> entries[i].document,
                     metadata |-> entries[i].metadata,
                     distance |-> distance_to[entries[i].embedding[2]]]]
    IN  Take(sort_by_distance(hits), n_results)

\* similarity = 1 - (distance / 2), in units of 10^-5.
\* (similarity_no_complement: distance / 2 alone)
similarity_no_complement(distance) == 5 * distance

similarity(distance) == 10 * ONE - 5 * distance

\* The loop body of search: one SearchResult per hit.
to_search_result(hit) ==
    SearchResult(hit.document, hit.metadata.doc_name, hit.metadata.chunk_id,
                 hit.metadata.page, round4(similarity(hit.distance)))

\* if collection.count() == 0: return []
is_empty(coll) == Len(coll.entries) = 0

\* search(query, top_k): [collection, ret, results]; results is what
\* collection.query returned.
search(coll, top_k, distance_to, default) ==
    LET k == or_default(top_k, default)
        c == get_collection(coll)
    IN  IF is_empty(c)
        THEN [collection |-> c, ret |-> <<>>, results |-> <<>>, queried |-> FALSE]
        ELSE LET results == query(c.entries, distance_to, k)
             IN  [collection |-> c,
                  ret |-> [i \in DOMAIN results |-> to_search_result(results[i])],
                  results |-> results, queried |-> TRUE]

\* clear_collection(): client.delete_collection(name); an exception of the
\* delete (the collection does not exist) is caught and printed.
\* (clear_collection_noop: the delete left out)
clear_collection_noop(coll) == coll

clear_collection(coll) == NoCollection

\* What a clear_collection call found, for the history variable.
Found(coll) ==
    IF ~coll.exists THEN "absent"
    ELSE IF coll.entries = <<>> THEN "was_empty" ELSE "emptied"

\* get_collection_stats(): [collection, document_count]
get_collection_stats(coll) ==
    LET c == get_collection(coll)
    IN  [collection |-> c, document_count |-> Len(c.entries)]

(***************************************************************************)
(* rag_chain.py                                                            *)
(***************************************************************************)
NoDocumentsAnswer ==
    "I don't know - no documents have been ingested yet. Please run the /ingest endpoint first."

GeneratedAnswer == "answer of the generator"

Source(result) ==
    [doc |-> result.doc_name, chunk_id |-> result.chunk_id,
     score |-> result.score]

\* ask(question, top_k): [collection, search_results, answer, sources,
\* generated]; generated says whether client.chat was called.
ask(coll, top_k, distance_to, default) ==
    LET k == or_default(top_k, default)
        found == search(coll, k, distance_to, default)
        search_results == found.ret
    IN  IF search_results = <<>>
        THEN [collection |-> found.collection, search_results |-> search_results,
              answer |-> NoDocumentsAnswer, sources |-> <<>>,
              generated |-> FALSE]
        ELSE [collection |-> found.collection, search_results |-> search_results,
              answer |-> GeneratedAnswer,
              sources |-> [i \in DOMAIN search_results |->
                              Source(search_results[i])],
              generated |-> TRUE]

(***************************************************************************)
(* routes/ingest.py: ingest_documents(clear_existing).                     *)
(* loaded is what load_documents does: "missing" when the data directory   *)
(* does not exist (FileNotFoundError), else the documents it returns.      *)
(***************************************************************************)
Missing == [missing |-> TRUE, documents |-> <<>>]

Loaded(documents) == [missing |-> FALSE, documents |-> documents]

\* [collection, status, documents, chunks, chunked, stats]
ingest_documents(coll, clear_existing, loaded, raises_on_duplicate) ==
    LET c1 == IF clear_existing THEN clear_collection(coll) ELSE coll
        documents == loaded.documents
        failed(c, status, chunks, chunked) ==
            [collection |-> c, status |-> status, documents |-> documents,
             chunks |-> chunks, chunked |-> chunked, document_count |-> 0]
    IN  IF loaded.missing
        THEN \* except FileNotFoundError: 404
             failed(c1, 404, <<>>, FALSE)
        ELSE IF documents = <<>>
        THEN \* the HTTPException(404) raised in the try block is caught by
             \* "except Exception" and raised again with status 500
             failed(c1, 500, <<>>, FALSE)
        ELSE LET chunks == create_chunks(documents)
                 added == add_chunks(c1, chunks, raises_on_duplicate)
             IN  IF added.raised
                 THEN failed(added.collection, 500, chunks, TRUE)
                 ELSE LET stats == get_collection_stats(added.collection)
                      IN  [collection |-> stats.collection, status |-> 200,
                           documents |-> documents, chunks |-> chunks,
                           chunked |-> TRUE,
                           document_count |-> stats.document_count]

(***************************************************************************)
(* Inputs of the index specification.                                      *)
(***************************************************************************)
DocA == Document(<<"t0", "t1">>, "a.txt", 0)
DocB == Document(<<"t1">>, "b.pdf", 1)
DocC == Document(<<Blank, "t0">>, "b.pdf", 2)
DocE == Document(<<Blank>>, "e.txt", 0)

DocumentPool == {DocA, DocB, DocC, DocE}

\* load_documents(): every file of the data directory is loaded once, the
\* .txt files (page 0) first and then the pages of the .pdf file in order.
DocumentLists ==
    {d \in SeqsUpTo(DocumentPool, MaxDocs) :
        /\ \A i, j \in DOMAIN d : d[i] = d[j] => i = j
        /\ \A i, j \in DOMAIN d :
              i < j => d[i].metadata.page <= d[j].metadata.page}

LoadResults == {Missing} \cup {Loaded(d) : d \in DocumentLists}

Queries == [Contents -> Distances]

Init ==
    /\ settings_top_k = DefaultTopK
    /\ collection = NoCollection
    /\ cleared = "no"
    /\ call = [op |-> "start"]
    /\ globals = NoGlobals
    /\ threads = NoThreads

\* The history variable after an operation that left the collection as c.
ClearedAfter(before, c) ==
    IF Len(c.entries) > 0 THEN "no" ELSE before

IngestDocuments ==
    \E clear_existing \in BOOLEAN, loaded \in LoadResults,
       raises_on_duplicate \in BOOLEAN :
        LET r == ingest_documents(collection, clear_existing, loaded,
                                  raises_on_duplicate)
        IN  /\ collection' = r.collection
            /\ cleared' = ClearedAfter(IF clear_existing THEN Found(collection)
                                       ELSE cleared, r.collection)
            /\ call' = [op |-> "ingest", clear_existing |-> clear_existing,
                        status |-> r.status, documents |-> r.documents,
                        chunks |-> r.chunks, chunked |-> r.chunked,
                        document_count |-> r.document_count]
            /\ UNCHANGED <<settings_top_k, globals, threads>>

ClearCollection ==
    /\ collection' = clear_collection(collection)
    /\ cleared' = Found(collection)
    /\ call' = [op |-> "clear_collection"]
    /\ UNCHANGED <<settings_top_k, globals, threads>>

Search ==
    \E top_k \in 0..MaxK, distance_to \in Queries :
        LET r == search(collection, top_k, distance_to, settings_top_k)
        IN  /\ collection' = r.collection
            /\ call' = [op |-> "search", top_k |-> top_k, ret |-> r.ret,
                        results |-> r.results, queried |-> r.queried]
            /\ UNCHANGED <<settings_top_k, cleared, globals, threads>>

Ask ==
    \E top_k \in 0..MaxK, distance_to \in Queries :
        LET r == ask(collection, top_k, distance_to, settings_top_k)
        IN  /\ collection' = r.collection
            /\ call' = [op |-> "ask", top_k |-> top_k,
                        ret |-> r.search_results, answer |-> r.answer,
                        sources |-> r.sources, generated |-> r.generated]
            /\ UNCHANGED <<settings_top_k, cleared, globals, threads>>

Next == IngestDocuments \/ ClearCollection \/ Search \/ Ask

Spec == Init /\ [][Next]_vars

(***************************************************************************)
(* Inputs of the reranker specification.                                   *)
(***************************************************************************)
\* The content, document and page of the candidate with a chunk id.
ContentOf(id) == IF id % 2 = 0 THEN "t0" ELSE "t1"
DocOf(id) == IF id % 2 = 0 THEN "a.txt" ELSE "b.pdf"
PageOf(id) == IF id % 2 = 0 THEN 0 ELSE id

\* Scores the candidates arrive with, and raw scores the cross-encoder gives.
CandidateScores == {2500, 9000}
RawScores == {-70000, -50000, 0, 12345, 50000, 80000}

CandidatePool ==
    {SearchResult(ContentOf(id), DocOf(id), id, PageOf(id), s) :
        id \in 0..MaxChunkId, s \in CandidateScores}

InitRerank ==
    /\ settings_top_k \in TopKSettings
    /\ collection = NoCollection
    /\ cleared = "no"
    /\ globals = NoGlobals
    /\ threads = NoThreads
    /\ \E results \in SeqsUpTo(CandidatePool, MaxCandidates),
          top_k \in 0..MaxK,
          predict \in [Contents -> RawScores] :
          call = [op |-> "input", results |-> results, top_k |-> top_k,
                  predict |-> predict]

\* One call of rerank on the drawn input.
RerankCall ==
    /\ call.op = "input"
    /\ LET r == rerank(call.results, call.top_k, call.predict, settings_top_k)
       IN  call' = [op |-> "rerank", results |-> call.results,
                    top_k |-> call.top_k, predict |-> call.predict,
                    ret |-> r.ret, scores |-> r.scores,
                    reranked_results |-> r.reranked_results,
                    predict_calls |-> r.predict_calls]
    /\ UNCHANGED <<settings_top_k, collection, cleared, globals, threads>>

\* A second call of rerank, on the output of the first, same query, with a
\* final_k that is at least the length of that output.
RerankAgain ==
    /\ call.op = "rerank"
    /\ \E top_k \in 0..MaxK :
          /\ top_k >= Len(call.ret)
          /\ LET r == rerank(call.ret, top_k, call.predict, settings_top_k)
             IN  call' = [op |-> "rerank_again", results |-> call.ret,
                          top_k |-> top_k, predict |-> call.predict,
                          first_predict_calls |-> call.predict_calls,
                          ret |-> r.ret, scores |-> r.scores,
                          reranked_results |-> r.reranked_results,
                          predict_calls |-> r.predict_calls]
    /\ UNCHANGED <<settings_top_k, collection, cleared, globals, threads>>

\* rerank when reranker.predict raises.  rerank has no handler around the
\* call, so the exception leaves rerank: nothing is returned and predict is
\* not called again.
\* (on_predict_error_fallback: the candidates returned in their old order)
on_predict_error_fallback(results, k) ==
    [raised |-> FALSE, returned |-> TRUE, ret |-> Take(results, k),
     predict_calls |-> 1]

on_predict_error(results, k) ==
    [raised |-> TRUE, returned |-> FALSE, ret |-> <<>>, predict_calls |-> 1]

\* rerank with a predict that raises when it is called:
\* [raised, returned, ret, predict_calls]
rerank_predict_raising(results, top_k, predict, default) ==
    LET r == rerank(results, top_k, predict, default)
    IN  IF r.predict_calls = 0
        THEN [raised |-> FALSE, returned |-> TRUE, ret |-> r.ret,
              predict_calls |-> 0]
        ELSE on_predict_error(results, or_default(top_k, default))

\* One call of rerank on the drawn input, the cross-encoder failing.
RerankPredictRaises ==
    /\ call.op = "input"
    /\ LET r == rerank_predict_raising(call.results, call.top_k, call.predict,
                                       settings_top_k)
       IN  call' = [op |-> "rerank_predict_raises", results |-> call.results,
                    top_k |-> call.top_k, raised |-> r.raised,
                    returned |-> r.returned, ret |-> r.ret,
                    predict_calls |-> r.predict_calls]
    /\ UNCHANGED <<settings_top_k, collection, cleared, globals, threads>>

\* compare_rankings(query, original, reranked).
\* list.index(x): the position of the first x, counted from 0.
index(ids, x) ==
    (CHOOSE i \in DOMAIN ids :
        ids[i] = x /\ \A j \in DOMAIN ids : ids[j] = x => i <= j) - 1

\* The loop over enumerate(reranked_ids) from position i on: one rank change
\* for every id that is in original_ids.
RECURSIVE rank_changes(_, _, _)
rank_changes(original_ids, reranked_ids, i) ==
    IF i > Len(reranked_ids) THEN <<>>
    ELSE LET chunk_id == reranked_ids[i]
             in_original == \E j \in DOMAIN original_ids :
                               original_ids[j] = chunk_id
         IN  (IF in_original
              THEN <<Abs((i - 1) - index(original_ids, chunk_id))>>
              ELSE <<>>)
             \o rank_changes(original_ids, reranked_ids, i + 1)

RECURSIVE sum(_)
sum(s) == IF s = <<>> THEN 0 ELSE Head(s) + sum(Tail(s))

\* round(p / q, digits) for p >= 0, q > 0, as a count of units of
\* 10^-digits, scale = 10^digits: the nearest count, the even one of two
\* equally near.
round_ratio(p, q, scale) ==
    LET n == (p * scale) \div q
        r == (p * scale) % q
    IN  IF 2 * r < q THEN n
        ELSE IF 2 * r > q THEN n + 1
        ELSE IF n % 2 = 0 THEN n ELSE n + 1

\* The dict compare_rankings returns.  overlap_percentage is in units of
\* 0.1 (round(x, 1)), avg_rank_change in units of 0.01 (round(x, 2)).
compare_rankings(original, reranked) ==
    LET original_ids == [i \in DOMAIN original |-> original[i].chunk_id]
        reranked_ids == [i \in DOMAIN reranked |-> reranked[i].chunk_id]
        overlap ==
            Cardinality({original_ids[i] : i \in DOMAIN original_ids}
                        \cap {reranked_ids[i] : i \in DOMAIN reranked_ids})
        total == Len(reranked_ids)
        changes == rank_changes(original_ids, reranked_ids, 1)
    IN  [overlap |-> overlap,
         total |-> total,
         overlap_percentage |->
             IF total > 0 THEN round_ratio(overlap * 100, total, 10) ELSE 0,
         avg_rank_change |->
             IF changes # <<>> THEN round_ratio(sum(changes), Len(changes), 100)
             ELSE 0,
         original_top_3 |-> Take(original_ids, 3),
         reranked_top_3 |-> Take(reranked_ids, 3)]

\* compare_rankings on the candidates of a rerank call and what it returned.
CompareRankings ==
    /\ call.op = "rerank"
    /\ call' = [op |-> "compare_rankings", original |-> call.results,
                reranked |-> call.ret, top_k |-> call.top_k,
                metrics |-> compare_rankings(call.results, call.ret)]
    /\ UNCHANGED <<settings_top_k, collection, cleared, globals, threads>>

NextRerank ==
    RerankCall \/ RerankAgain \/ RerankPredictRaises \/ CompareRankings

SpecRerank == InitRerank /\ [][NextRerank]_vars

(***************************************************************************)
(* Properties of rerank, checked under SpecRerank.                         *)
(***************************************************************************)
IsRerankCall == call.op \in {"rerank", "rerank_again"}

SameButScore(a, b) ==
    /\ a.content = b.content
    /\ a.doc_name = b.doc_name
    /\ a.chunk_id = b.chunk_id
    /\ a.page = b.page

Injective(f) == \A p, q \in DOMAIN f : f[p] = f[q] => p = q

\* C1: rerank(query, candidates, final_k) with len(candidates) <= final_k,
\* the empty list included, returns the candidates unchanged (elements,
\* order, original scores) and does not call the pairwise scorer.
C1_ShortCircuit ==
    (IsRerankCall /\ Len(call.results) <= call.top_k)
        => (call.ret = call.results /\ call.predict_calls = 0)

C1_Witness ==
    /\ call.op = "rerank"
    /\ Len(call.results) = call.top_k
    /\ Len(call.results) >= 2
    /\ call.results[1].score < call.results[2].score

\* out is the first k elements of the stable descending-score ordering of in.
Before(in, a, b) ==
    \/ in[a].score > in[b].score
    \/ (in[a].score = in[b].score /\ a < b)

IsStableTopK(out, in, k) ==
    /\ Len(out) = k
    /\ \E f \in [1..k -> DOMAIN in] :
          /\ Injective(f)
          /\ \A p \in 1..k : out[p] = in[f[p]]
          /\ \A p, q \in 1..k : p < q => Before(in, f[p], f[q])
          /\ \A j \in DOMAIN in :
                (\A p \in 1..k : f[p] # j) => \A p \in 1..k : Before(in, f[p], j)

\* C2: when len(candidates) > final_k, rerank returns exactly final_k
\* results: the first final_k elements of the stable descending ordering,
\* by normalized score, of all rescored candidates.
C2_ExactlyFinalK ==
    (IsRerankCall /\ Len(call.results) > call.top_k)
        => /\ call.predict_calls = 1
           /\ Len(call.reranked_results) = Len(call.results)
           /\ IsStableTopK(call.ret, call.reranked_results, call.top_k)

\* The same statement for final_k >= 1, the range the /ask-reranked request
\* model admits (ge=1).
C2_ExactlyFinalK_Positive ==
    (IsRerankCall /\ call.top_k >= 1 /\ Len(call.results) > call.top_k)
        => /\ call.predict_calls = 1
           /\ Len(call.reranked_results) = Len(call.results)
           /\ IsStableTopK(call.ret, call.reranked_results, call.top_k)

\* s (units of 10^-4) is v (units of 10^-5) rounded to 4 digits: the
\* nearest value, and of two equally near values the even one.
IsRounded(s, v) ==
    \/ Abs(10 * s - v) < 5
    \/ (Abs(10 * s - v) = 5 /\ s % 2 = 0)

\* C4: the rescored candidate's score is round(clamp((raw + 5) / 10, 0, 1), 4):
\* raw <= -5 gives 0.0, raw >= 5 gives 1.0, in between the score is the
\* linear value (raw + 5) / 10 rounded to 4 digits.  The score is a function
\* of the raw score alone, so equal raw scores give equal normalized scores,
\* in one call or in two.
C4_Normalization ==
    (IsRerankCall /\ call.predict_calls = 1)
        => /\ DOMAIN call.scores = DOMAIN call.results
           /\ DOMAIN call.reranked_results = DOMAIN call.results
           /\ \A i \in DOMAIN call.results :
                LET raw == call.scores[i]
                    s == call.reranked_results[i].score
                IN  /\ raw = call.predict[call.results[i].content]
                    /\ raw <= -5 * ONE => s = 0
                    /\ raw >= 5 * ONE => s = ONE
                    /\ (raw > -5 * ONE /\ raw < 5 * ONE)
                          => IsRounded(s, raw + 5 * ONE)
                    /\ \A j \in DOMAIN call.results :
                          call.scores[j] = raw
                              => call.reranked_results[j].score = s

C4_Witness ==
    /\ call.op = "rerank"
    /\ call.predict_calls = 1
    /\ \E i, j \in DOMAIN call.results :
          /\ call.scores[i] < -5 * ONE
          /\ call.scores[j] = 12345
          /\ call.reranked_results[j].score = 6234

\* C5: every returned result carries the content, doc_name, chunk_id and
\* page of one input candidate, no input candidate is returned twice and
\* none is invented; only the score may differ.
C5_OnlyScoreChanges ==
    IsRerankCall
        => \E f \in [DOMAIN call.ret -> DOMAIN call.results] :
              /\ Injective(f)
              /\ \A p \in DOMAIN call.ret :
                    SameButScore(call.ret[p], call.results[f[p]])

C5_Witness ==
    /\ call.op = "rerank"
    /\ call.predict_calls = 1
    /\ Len(call.ret) >= 2
    /\ call.ret[1].page > 0
    /\ call.ret[1].score # call.results[1].score
    /\ call.ret[1].chunk_id # call.results[1].chunk_id

\* C6: rerank applied to its own output, same query, with a final_k that is
\* at least the length of that output, returns that output again.
C6_RerunSame ==
    call.op = "rerank_again" => call.ret = call.results

C6_Witness ==
    /\ call.op = "rerank_again"
    /\ call.first_predict_calls = 1
    /\ Len(call.ret) >= 2
    /\ call.top_k = Len(call.ret)

(***************************************************************************)
(* Properties of the index engine, checked under Spec.                     *)
(***************************************************************************)
InUnitRange(results) ==
    \A i \in DOMAIN results : 0 <= results[i].score /\ results[i].score <= ONE

\* C3: every SearchResult has a score in [0, 1]: every result search()
\* returns, for every distance the index can report for the collection as
\* get_collection creates it, and every result rerank() returns.
C3_ScoreRange ==
    /\ call.op \in {"search", "ask"} => InUnitRange(call.ret)
    /\ IsRerankCall => InUnitRange(call.ret)

\* C7: the scores of a search output never increase along the sequence, and
\* search maps the hits of the index one by one: the i-th result is the
\* i-th hit (content and metadata), none dropped, repeated or moved, so that
\* results of equal score keep the order of the index.
C7_SearchOrder ==
    call.op = "search"
        => /\ \A i \in DOMAIN call.ret :
                i > 1 => call.ret[i - 1].score >= call.ret[i].score
           /\ DOMAIN call.ret = DOMAIN call.results
           /\ \A i \in DOMAIN call.ret :
                /\ call.ret[i].content = call.results[i].document
                /\ call.ret[i].doc_name = call.results[i].metadata.doc_name
                /\ call.ret[i].chunk_id = call.results[i].metadata.chunk_id
                /\ call.ret[i].page = call.results[i].metadata.page

C7_Witness ==
    /\ call.op = "search"
    /\ Len(call.ret) >= 3
    /\ call.ret[1].score > call.ret[2].score
    /\ call.ret[2].score = call.ret[3].score
    /\ call.ret[1].chunk_id > call.ret[2].chunk_id

RECURSIVE PiecesBefore(_, _)
PiecesBefore(documents, d) ==
    IF d <= 1 THEN 0
    ELSE PiecesBefore(documents, d - 1)
            + Len(split_text(documents[d - 1].content))

\* C9: the chunk ids of one create_chunks call are 0..n-1 in output order
\* (distinct, strictly increasing), the output is in document order and
\* then position order, and the counter runs on across the documents.
C9_ChunkIds ==
    (call.op = "ingest" /\ call.chunked)
        => /\ \A i \in DOMAIN call.chunks :
                call.chunks[i].metadata.chunk_id = i - 1
           /\ Len(call.chunks)
                = PiecesBefore(call.documents, Len(call.documents) + 1)
           /\ \A d \in DOMAIN call.documents :
                LET pieces == split_text(call.documents[d].content)
                IN  \A p \in DOMAIN pieces :
                        LET c == call.chunks[PiecesBefore(call.documents, d) + p]
                        IN  /\ c.content = pieces[p]
                            /\ c.metadata.doc_name
                                  = call.documents[d].metadata.doc_name
                            /\ c.metadata.page = call.documents[d].metadata.page

C9_Witness ==
    /\ call.op = "ingest"
    /\ call.chunked
    /\ Len(call.documents) >= 2
    /\ Len(call.chunks) >= 3
    /\ call.chunks[3].metadata.doc_name # call.chunks[1].metadata.doc_name
    /\ call.chunks[3].metadata.chunk_id = 2

\* C10: adding an entry whose id is already stored replaces the stored
\* entry: after an ingestion run that did not clear the collection, every
\* id of the run holds the content, embedding and metadata of the run's
\* chunk, and count() counts every id once.
C10_UpsertReplaces ==
    (call.op = "ingest" /\ ~call.clear_existing /\ call.chunked)
        => /\ call.status = 200
           /\ \A i \in DOMAIN call.chunks :
                \E j \in DOMAIN collection.entries :
                    /\ collection.entries[j].id = chunk_key(call.chunks[i])
                    /\ collection.entries[j].document = call.chunks[i].content
                    /\ collection.entries[j].metadata = call.chunks[i].metadata
                    /\ collection.entries[j].embedding
                          = embed_query(call.chunks[i].content)
           /\ \A i, j \in DOMAIN collection.entries :
                collection.entries[i].id = collection.entries[j].id => i = j
           /\ call.document_count = Len(collection.entries)

(***************************************************************************)
(* The lazy singletons under concurrent callers: get_embedding_model       *)
(* (embeddings.py), get_reranker (reranker.py) and get_chroma_client       *)
(* (vector_store.py).  Each getter is                                      *)
(*     global _x                                                           *)
(*     if _x is None: _x = Constructor(...)                                *)
(*     return _x                                                           *)
(* with no lock, so a thread can be preempted between the test, the        *)
(* constructor and the store.  A thread's record holds its position in the *)
(* getter (pc), the getter, the object it constructed (made) and what the  *)
(* getter returned (ret).                                                  *)
(***************************************************************************)
MaxThreads == 2

Threads == 1..MaxThreads

Idle == [pc |-> "idle", getter |-> "none", made |-> 0, ret |-> 0]

\* if _x is None: the branch a thread takes for what the global holds.
after_test(instance) == IF instance = 0 THEN "construct" ELSE "return"

\* What follows the store of the new object: get_chroma_client tests the
\* connection, the other getters return.
after_store(getter) ==
    IF getter = "get_chroma_client" THEN "heartbeat" ELSE "return"

InitLazy ==
    /\ settings_top_k = DefaultTopK
    /\ collection = NoCollection
    /\ cleared = "no"
    /\ call = [op |-> "start"]
    /\ globals = NoGlobals
    /\ threads = [t \in Threads |-> Idle]

\* A thread enters a getter.
CallGetter(t) ==
    /\ threads[t].pc = "idle"
    /\ \E g \in Getters :
          threads' = [threads EXCEPT ![t] =
                         [pc |-> "test", getter |-> g, made |-> 0, ret |-> 0]]
    /\ UNCHANGED <<settings_top_k, collection, cleared, call, globals>>

\* if _x is None
TestNone(t) ==
    /\ threads[t].pc = "test"
    /\ threads' = [threads EXCEPT
                      ![t].pc = after_test(globals.instance[threads[t].getter])]
    /\ UNCHANGED <<settings_top_k, collection, cleared, call, globals>>

\* Constructor(...): a new object is built.
Construct(t) ==
    /\ threads[t].pc = "construct"
    /\ LET g == threads[t].getter
           n == globals.constructed[g] + 1
       IN  /\ globals' = [globals EXCEPT !.constructed[g] = n]
           /\ threads' = [threads EXCEPT ![t].pc = "store", ![t].made = n]
    /\ UNCHANGED <<settings_top_k, collection, cleared, call>>

\* _x = <the new object>
Store(t) ==
    /\ threads[t].pc = "store"
    /\ LET g == threads[t].getter
       IN  /\ globals' = [globals EXCEPT !.instance[g] = threads[t].made]
           /\ threads' = [threads EXCEPT ![t].pc = after_store(g)]
    /\ UNCHANGED <<settings_top_k, collection, cleared, call>>

\* heartbeat = _client.heartbeat(), the server answering.
Heartbeat(t) ==
    /\ threads[t].pc = "heartbeat"
    /\ threads' = [threads EXCEPT ![t].pc = "return"]
    /\ globals' = [globals EXCEPT
                       !.tested = @ \cup {globals.instance[threads[t].getter]}]
    /\ UNCHANGED <<settings_top_k, collection, cleared, call>>

\* return _x
Return(t) ==
    /\ threads[t].pc = "return"
    /\ threads' = [threads EXCEPT
                      ![t].pc = "idle",
                      ![t].ret = globals.instance[threads[t].getter]]
    /\ UNCHANGED <<settings_top_k, collection, cleared, call, globals>>

NextLazy ==
    \E t \in Threads :
        \/ CallGetter(t)
        \/ TestNone(t)
        \/ Construct(t)
        \/ Store(t)
        \/ Heartbeat(t)
        \/ Return(t)

SpecLazy == InitLazy /\ [][NextLazy]_vars

\* C11: under every interleaving of concurrent first calls, the constructor
\* of each of the three singletons is executed at most once.
C11_ConstructedOnce ==
    \A g \in Getters : globals.constructed[g] <= 1

(***************************************************************************)
(* An ingestion run and a search running at the same time on the one       *)
(* collection of the Chroma server.  Neither routes/ingest.py nor          *)
(* vector_store.py takes a lock, so the calls to the server interleave:    *)
(*   ingestion: delete_collection | get_or_create_collection, add | count  *)
(*   search:    get_or_create_collection | count | query                   *)
(* The collection handle of the search names the collection it was given   *)
(* by its id; once that collection is deleted the handle is stale and the  *)
(* next call through it raises, also when a collection of the same name    *)
(* has been created since.                                                 *)
(***************************************************************************)
IdleIngest == [pc |-> "idle", emptied |-> FALSE, status |-> 0]

IdleSearch ==
    [pc |-> "idle", stale |-> FALSE, saw_cleared |-> FALSE, raised |-> FALSE,
     ret |-> <<>>]

\* The search holds a collection handle between get_collection() and its
\* last call through it.
holds_handle(s) == s.pc \in {"count", "query"}

InitConcurrent ==
    /\ settings_top_k = DefaultTopK
    /\ collection = NoCollection
    /\ cleared = "no"
    /\ call = [op |-> "start"]
    /\ globals = NoGlobals
    /\ threads = [ingest |-> IdleIngest, search |-> IdleSearch]

\* ingest_documents, step 1: if clear_existing: clear_collection()
IngestClear ==
    /\ threads.ingest.pc = "idle"
    /\ \E clear_existing \in BOOLEAN :
          /\ collection' = IF clear_existing THEN clear_collection(collection)
                           ELSE collection
          /\ threads' =
                [ingest |-> [pc |-> "add",
                             emptied |-> clear_existing
                                         /\ Found(collection) = "emptied",
                             status |-> 0],
                 search |-> [threads.search EXCEPT
                                !.stale = @ \/ (clear_existing
                                                /\ collection.exists
                                                /\ holds_handle(threads.search))]]
    /\ UNCHANGED <<settings_top_k, cleared, call, globals>>

\* ingest_documents, steps 2 to 4: load_documents, create_chunks, add_chunks
IngestAdd ==
    /\ threads.ingest.pc = "add"
    /\ \E loaded \in LoadResults, raises_on_duplicate \in BOOLEAN :
          LET chunks == create_chunks(loaded.documents)
              added == add_chunks(collection, chunks, raises_on_duplicate)
              done(status) ==
                  [threads EXCEPT !.ingest = [pc |-> "idle", emptied |-> FALSE,
                                              status |-> status]]
          IN  IF loaded.missing
              THEN threads' = done(404) /\ UNCHANGED collection
              ELSE IF loaded.documents = <<>>
              THEN threads' = done(500) /\ UNCHANGED collection
              ELSE /\ collection' = added.collection
                   /\ threads' = IF added.raised THEN done(500)
                                 ELSE [threads EXCEPT !.ingest.pc = "stats",
                                                      !.ingest.emptied = FALSE]
    /\ UNCHANGED <<settings_top_k, cleared, call, globals>>

\* ingest_documents, step 5: get_collection_stats() and the response
IngestStats ==
    /\ threads.ingest.pc = "stats"
    /\ collection' = get_collection_stats(collection).collection
    /\ threads' = [threads EXCEPT !.ingest.pc = "idle", !.ingest.status = 200]
    /\ UNCHANGED <<settings_top_k, cleared, call, globals>>

\* search: collection = get_collection()
SearchGet ==
    /\ threads.search.pc = "idle"
    /\ collection' = get_collection(collection)
    /\ threads' = [threads EXCEPT !.search = [IdleSearch EXCEPT !.pc = "count"]]
    /\ UNCHANGED <<settings_top_k, cleared, call, globals>>

\* search: if collection.count() == 0: return []
SearchCount ==
    /\ threads.search.pc = "count"
    /\ threads' =
          [threads EXCEPT !.search =
              IF threads.search.stale
              THEN [@ EXCEPT !.pc = "idle", !.raised = TRUE]
              ELSE IF is_empty(collection)
              THEN [@ EXCEPT !.pc = "idle",
                             !.saw_cleared = threads.ingest.pc = "add"
                                             /\ threads.ingest.emptied]
              ELSE [@ EXCEPT !.pc = "query"]]
    /\ UNCHANGED <<settings_top_k, collection, cleared, call, globals>>

\* search: collection.query(...) and the conversion of the hits
SearchQuery ==
    /\ threads.search.pc = "query"
    /\ \E top_k \in 0..MaxK, distance_to \in Queries :
          LET results == query(collection.entries, distance_to,
                               or_default(top_k, settings_top_k))
          IN  threads' =
                 [threads EXCEPT !.search =
                     IF threads.search.stale
                     THEN [@ EXCEPT !.pc = "idle", !.raised = TRUE]
                     ELSE [@ EXCEPT !.pc = "idle",
                                    !.ret = [i \in DOMAIN results |->
                                                to_search_result(results[i])]]]
    /\ UNCHANGED <<settings_top_k, collection, cleared, call, globals>>

NextConcurrent ==
    \/ IngestClear
    \/ IngestAdd
    \/ IngestStats
    \/ SearchGet
    \/ SearchCount
    \/ SearchQuery

SpecConcurrent == InitConcurrent /\ [][NextConcurrent]_vars

\* C12: a search running concurrently with an ingestion run never observes
\* the index cleared but not yet refilled, and never fails because the
\* collection was deleted between its count check and its query.
C12_IngestionExclusive ==
    /\ ~threads.search.saw_cleared
    /\ ~threads.search.raised

(***************************************************************************)
(* The index operations with a Chroma server that may be unreachable.      *)
(* backend_ok says whether the server answers during the operation.        *)
(* Each operator gives [collection, globals, failed, raised, ret]: failed  *)
(* says that a call to the server failed, raised that the operation raised *)
(* to its caller.                                                          *)
(***************************************************************************)
\* get_chroma_client(): [globals, raised].  The client is created on the
\* first call.  chromadb.HttpClient(...) contacts the server in some
\* releases (ctor_connects) and then raises itself, leaving _client None;
\* in the others the client is stored and heartbeat() raises.
get_chroma_client(g, backend_ok, ctor_connects) ==
    LET c == "get_chroma_client"
        n == g.constructed[c] + 1
        stored == [g EXCEPT !.constructed[c] = n, !.instance[c] = n]
        tested == [stored EXCEPT !.tested = @ \cup {n}]
    IN  IF g.instance[c] # 0 THEN [globals |-> g, raised |-> FALSE]
        ELSE IF backend_ok THEN [globals |-> tested, raised |-> FALSE]
        ELSE IF ctor_connects THEN [globals |-> g, raised |-> TRUE]
        ELSE [globals |-> stored, raised |-> TRUE]

\* The outcome of an operation that does not catch the failing call.
propagated(coll, g) ==
    [collection |-> coll, globals |-> g, failed |-> TRUE, raised |-> TRUE,
     ret |-> <<>>]

returned(coll, g, ret) ==
    [collection |-> coll, globals |-> g, failed |-> FALSE, raised |-> FALSE,
     ret |-> ret]

search_with_backend(coll, g, backend_ok, ctor_connects, top_k, q, default) ==
    LET client == get_chroma_client(g, backend_ok, ctor_connects)
        r == search(coll, top_k, q, default)
    IN  IF client.raised \/ ~backend_ok THEN propagated(coll, client.globals)
        ELSE returned(r.collection, client.globals, r.ret)

add_chunks_with_backend(coll, g, backend_ok, ctor_connects, chunks, raises) ==
    LET client == get_chroma_client(g, backend_ok, ctor_connects)
        r == add_chunks(coll, chunks, raises)
    IN  IF chunks = <<>> THEN returned(coll, g, 0)
        ELSE IF client.raised \/ ~backend_ok
        THEN propagated(coll, client.globals)
        ELSE [collection |-> r.collection, globals |-> client.globals,
              failed |-> FALSE, raised |-> r.raised, ret |-> r.ret]

\* clear_collection(): get_chroma_client() is called outside the try block,
\* delete_collection inside it; "except Exception" catches whatever the
\* delete raises, the failure to reach the server included.
clear_collection_with_backend(coll, g, backend_ok, ctor_connects) ==
    LET client == get_chroma_client(g, backend_ok, ctor_connects)
    IN  IF client.raised THEN propagated(coll, client.globals)
        ELSE IF ~backend_ok
        THEN [collection |-> coll, globals |-> client.globals,
              failed |-> TRUE, raised |-> FALSE, ret |-> <<>>]
        ELSE returned(clear_collection(coll), client.globals, <<>>)

get_collection_stats_with_backend(coll, g, backend_ok, ctor_connects) ==
    LET client == get_chroma_client(g, backend_ok, ctor_connects)
        r == get_collection_stats(coll)
    IN  IF client.raised \/ ~backend_ok THEN propagated(coll, client.globals)
        ELSE returned(r.collection, client.globals, r.document_count)

IndexOps ==
    {"search", "add_chunks", "clear_collection", "get_collection_stats"}

InitBackend ==
    /\ settings_top_k = DefaultTopK
    /\ collection = NoCollection
    /\ cleared = "no"
    /\ call = [op |-> "start"]
    /\ globals = NoGlobals
    /\ threads = NoThreads

\* The record of an index operation with outcome r.
Completed(op, backend_ok, r) ==
    [op |-> op, backend_ok |-> backend_ok, failed |-> r.failed,
     raised |-> r.raised, ret |-> r.ret]

SearchBackend ==
    \E backend_ok, ctor_connects \in BOOLEAN, top_k \in 0..MaxK,
       distance_to \in Queries :
        LET r == search_with_backend(collection, globals, backend_ok,
                                     ctor_connects, top_k, distance_to,
                                     settings_top_k)
        IN  /\ collection' = r.collection
            /\ globals' = r.globals
            /\ call' = Completed("search", backend_ok, r)
            /\ UNCHANGED <<settings_top_k, cleared, threads>>

AddChunksBackend ==
    \E backend_ok, ctor_connects, raises_on_duplicate \in BOOLEAN,
       documents \in DocumentLists :
        LET r == add_chunks_with_backend(collection, globals, backend_ok,
                                         ctor_connects,
                                         create_chunks(documents),
                                         raises_on_duplicate)
        IN  /\ collection' = r.collection
            /\ globals' = r.globals
            /\ call' = Completed("add_chunks", backend_ok, r)
            /\ UNCHANGED <<settings_top_k, cleared, threads>>

ClearCollectionBackend ==
    \E backend_ok, ctor_connects \in BOOLEAN :
        LET r == clear_collection_with_backend(collection, globals,
                                               backend_ok, ctor_connects)
        IN  /\ collection' = r.collection
            /\ globals' = r.globals
            /\ call' = [op |-> "clear_collection", backend_ok |-> backend_ok,
                        failed |-> r.failed, raised |-> r.raised,
                        ret |-> r.ret, found |-> Found(collection),
                        repeated |-> call.op = "clear_collection"]
            /\ UNCHANGED <<settings_top_k, cleared, threads>>

GetCollectionStatsBackend ==
    \E backend_ok, ctor_connects \in BOOLEAN :
        LET r == get_collection_stats_with_backend(collection, globals,
                                                   backend_ok, ctor_connects)
        IN  /\ collection' = r.collection
            /\ globals' = r.globals
            /\ call' = Completed("get_collection_stats", backend_ok, r)
            /\ UNCHANGED <<settings_top_k, cleared, threads>>

NextBackend ==
    \/ SearchBackend
    \/ AddChunksBackend
    \/ ClearCollectionBackend
    \/ GetCollectionStatsBackend

SpecBackend == InitBackend /\ [][NextBackend]_vars

\* C13: when a call to the index backend fails during search, add_chunks,
\* clear_collection or get_collection_stats, the operation raises to its
\* caller; it never completes normally.
C13_FailureSurfaces ==
    call.op \in IndexOps => (call.failed => call.raised)

(***************************************************************************)
(* Failure of the cross-encoder, checked under SpecRerank.                 *)
(***************************************************************************)
\* C14: when predict raises during a rerank of more candidates than final_k,
\* rerank fails with that error: it returns no result list, neither the
\* candidates in their old order nor a part of them, and predict is called
\* once, not again.
C14_PredictErrorPropagates ==
    (/\ call.op = "rerank_predict_raises"
     /\ Len(call.results) > call.top_k
     /\ call.predict_calls > 0)
        => /\ call.raised
           /\ ~call.returned
           /\ call.ret = <<>>
           /\ call.predict_calls = 1

C14_Witness ==
    /\ call.op = "rerank_predict_raises"
    /\ call.top_k > 0
    /\ Len(call.results) > call.top_k
    /\ call.predict_calls = 1
    /\ call.raised

MaxChunkSize == 3    \* largest CHUNK_SIZE / CHUNK_OVERLAP of the environment
MaxTextLen == 4      \* longest document content

DefaultChunkSize == 512
DefaultChunkOverlap == 50

Space == " "
Newline == "\n"
Whitespace == {Space, Newline}
Alphabet == {"a", "b", Space, Newline}

Separators == << <<Newline, Newline>>, <<Newline>>, <<Space>>, <<>> >>

\* The environment: a variable is unset, <<>>, or holds an integer n, <<n>>.
Unset == <<>>
EnvValues == {Unset} \cup {<<n>> : n \in -1..MaxChunkSize}

\* Settings(): pydantic converts the variable to int, or takes the default
\* of the field; the class declares no validator, so every integer is
\* accepted.  [accepted, chunk_size, chunk_overlap]
load_settings(CHUNK_SIZE, CHUNK_OVERLAP) ==
    [accepted |-> TRUE,
     chunk_size |-> IF CHUNK_SIZE = Unset THEN DefaultChunkSize
                    ELSE CHUNK_SIZE[1],
     chunk_overlap |-> IF CHUNK_OVERLAP = Unset THEN DefaultChunkOverlap
                       ELSE CHUNK_OVERLAP[1]]

\* TextSplitter.__init__: the sizes the splitter's constructor accepts; it
\* raises ValueError for the others.
splitter_accepts(chunk_size, chunk_overlap) ==
    /\ chunk_size > 0
    /\ chunk_overlap >= 0
    /\ chunk_overlap <= chunk_size

\* str.strip()
RECURSIVE lstrip(_)
lstrip(text) ==
    IF text # <<>> /\ Head(text) \in Whitespace THEN lstrip(Tail(text))
    ELSE text

RECURSIVE rstrip(_)
rstrip(text) ==
    IF text # <<>> /\ text[Len(text)] \in Whitespace
    THEN rstrip(SubSeq(text, 1, Len(text) - 1))
    ELSE text

strip(text) == rstrip(lstrip(text))

\* "".join(docs)
RECURSIVE join(_)
join(docs) == IF docs = <<>> THEN <<>> ELSE Head(docs) \o join(Tail(docs))

\* _join_docs(docs, ""): the joined text stripped; <<>> stands for None.
join_docs(docs) == strip(join(docs))

occurs_at(separator, text, i) ==
    /\ i + Len(separator) - 1 <= Len(text)
    /\ SubSeq(text, i, i + Len(separator) - 1) = separator

\* re.search(separator, text)
contains(separator, text) ==
    \E i \in 1..Len(text) : occurs_at(separator, text, i)

\* re.split(separator, text): the pieces between the matches, found from
\* the left and not overlapping; piece is the piece being read.
RECURSIVE re_split(_, _, _)
re_split(separator, text, piece) ==
    IF text = <<>> THEN <<piece>>
    ELSE IF occurs_at(separator, text, 1)
    THEN <<piece>> \o re_split(separator,
                               SubSeq(text, Len(separator) + 1, Len(text)),
                               <<>>)
    ELSE re_split(separator, Tail(text), Append(piece, Head(text)))

\* _split_text_with_regex(text, separator, keep_separator=True): each
\* separator stays at the start of the piece that follows it; empty pieces
\* are dropped.  The separator "" splits into characters.
split_text_with_regex(text, separator) ==
    IF separator = <<>> THEN [i \in 1..Len(text) |-> <<text[i]>>]
    ELSE LET pieces == re_split(separator, text, <<>>)
             splits == [i \in 1..Len(pieces) |->
                           IF i = 1 THEN pieces[1] ELSE separator \o pieces[i]]
         IN  SelectSeq(splits, LAMBDA s : s # <<>>)

\* _merge_splits: the test that the piece of length len_ does not fit after
\* the total characters collected (the separator joined in is "").
\* (exceeds_by_two: one character too many let in)
exceeds_by_two(total, len_, chunk_size) == total + len_ > chunk_size + 1

exceeds(total, len_, chunk_size) == total + len_ > chunk_size

\* _merge_splits, the inner while loop: pieces are dropped from the front
\* of current_doc until at most chunk_overlap characters are left and the
\* next piece fits.
RECURSIVE pop_front(_, _, _, _, _)
pop_front(current_doc, total, len_, chunk_size, chunk_overlap) ==
    IF \/ total > chunk_overlap
       \/ (exceeds(total, len_, chunk_size) /\ total > 0)
    THEN pop_front(Tail(current_doc), total - Len(Head(current_doc)), len_,
                   chunk_size, chunk_overlap)
    ELSE [current_doc |-> current_doc, total |-> total]

\* _merge_splits(splits, ""), the loop over the pieces and the last join:
\* the chunks built from current_doc and the pieces still to come.
RECURSIVE merge_loop(_, _, _, _, _)
merge_loop(splits, current_doc, total, chunk_size, chunk_overlap) ==
    IF splits = <<>>
    THEN LET doc == join_docs(current_doc)
         IN  IF doc = <<>> THEN <<>> ELSE <<doc>>
    ELSE LET d == Head(splits)
             len_ == Len(d)
             flush == exceeds(total, len_, chunk_size) /\ current_doc # <<>>
             doc == join_docs(current_doc)
             kept == IF flush
                     THEN pop_front(current_doc, total, len_, chunk_size,
                                    chunk_overlap)
                     ELSE [current_doc |-> current_doc, total |-> total]
         IN  (IF flush /\ doc # <<>> THEN <<doc>> ELSE <<>>)
             \o merge_loop(Tail(splits), Append(kept.current_doc, d),
                           kept.total + len_, chunk_size, chunk_overlap)

merge_splits(splits, chunk_size, chunk_overlap) ==
    merge_loop(splits, <<>>, 0, chunk_size, chunk_overlap)

\* _split_text, the choice of the separator: the first of the list that is
\* "" or occurs in the text, else the last.
separator_index(text, separators) ==
    LET found == {i \in DOMAIN separators :
                     separators[i] = <<>> \/ contains(separators[i], text)}
    IN  IF found = {} THEN Len(separators)
        ELSE CHOOSE i \in found : \A j \in found : i <= j

\* new_separators: the separators after the chosen one; none after "" and
\* none when no separator was found.
separators_after(text, separators) ==
    LET i == separator_index(text, separators)
    IN  IF separators[i] # <<>> /\ contains(separators[i], text)
        THEN SubSeq(separators, i + 1, Len(separators))
        ELSE <<>>

\* _split_text(text, separators) and its loop over the pieces: a piece
\* shorter than chunk_size is collected in good_splits; a longer one ends
\* the collection, which is merged, and is split with the next separators,
\* or is a chunk as it is when there is none left.
RECURSIVE recursive_split_text(_, _, _, _)
RECURSIVE split_loop(_, _, _, _, _)
split_loop(splits, good_splits, new_separators, chunk_size, chunk_overlap) ==
    LET merged == IF good_splits = <<>> THEN <<>>
                  ELSE merge_splits(good_splits, chunk_size, chunk_overlap)
    IN  IF splits = <<>> THEN merged
        ELSE LET s == Head(splits)
             IN  IF Len(s) < chunk_size
                 THEN split_loop(Tail(splits), Append(good_splits, s),
                                 new_separators, chunk_size, chunk_overlap)
                 ELSE merged
                      \o (IF new_separators = <<>> THEN <<s>>
                          ELSE recursive_split_text(s, new_separators,
                                                    chunk_size, chunk_overlap))
                      \o split_loop(Tail(splits), <<>>, new_separators,
                                    chunk_size, chunk_overlap)

recursive_split_text(text, separators, chunk_size, chunk_overlap) ==
    LET separator == separators[separator_index(text, separators)]
    IN  split_loop(split_text_with_regex(text, separator), <<>>,
                   separators_after(text, separators), chunk_size,
                   chunk_overlap)

\* create_chunks on one document with the loaded settings:
\* [raised, chunks]; raised is the ValueError of the splitter's constructor,
\* chunks the contents of the chunks.
create_chunks_with(content, chunk_size, chunk_overlap) ==
    IF ~splitter_accepts(chunk_size, chunk_overlap)
    THEN [raised |-> TRUE, chunks |-> <<>>]
    ELSE [raised |-> FALSE,
          chunks |-> recursive_split_text(content, Separators, chunk_size,
                                          chunk_overlap)]

Texts == SeqsUpTo(Alphabet, MaxTextLen)

InitChunker ==
    /\ settings_top_k = DefaultTopK
    /\ collection = NoCollection
    /\ cleared = "no"
    /\ globals = NoGlobals
    /\ threads = NoThreads
    /\ \E CHUNK_SIZE, CHUNK_OVERLAP \in EnvValues, content \in Texts :
          call = [op |-> "environment", CHUNK_SIZE |-> CHUNK_SIZE,
                  CHUNK_OVERLAP |-> CHUNK_OVERLAP, content |-> content]

\* Startup: settings = Settings() at the import of app.config.
LoadSettings ==
    /\ call.op = "environment"
    /\ LET s == load_settings(call.CHUNK_SIZE, call.CHUNK_OVERLAP)
       IN  call' = [op |-> "settings", accepted |-> s.accepted,
                    chunk_size |-> s.chunk_size,
                    chunk_overlap |-> s.chunk_overlap,
                    content |-> call.content]
    /\ UNCHANGED <<settings_top_k, collection, cleared, globals, threads>>

\* A call of create_chunks on a document, in an ingestion run.
CreateChunks ==
    /\ call.op = "settings"
    /\ call.accepted
    /\ LET r == create_chunks_with(call.content, call.chunk_size,
                                   call.chunk_overlap)
       IN  call' = [op |-> "create_chunks", accepted |-> call.accepted,
                    chunk_size |-> call.chunk_size,
                    chunk_overlap |-> call.chunk_overlap,
                    content |-> call.content, raised |-> r.raised,
                    chunks |-> r.chunks]
    /\ UNCHANGED <<settings_top_k, collection, cleared, globals, threads>>

NextChunker == LoadSettings \/ CreateChunks

SpecChunker == InitChunker /\ [][NextChunker]_vars

\* The configurations the chunker is specified for.
valid_chunking(chunk_size, chunk_overlap) ==
    /\ chunk_size > 0
    /\ chunk_overlap >= 0
    /\ chunk_overlap < chunk_size

\* C16: a configuration with chunk size <= 0, overlap < 0 or overlap >=
\* chunk size is rejected when the settings are loaded at startup; it is
\* never accepted there, to be detected first inside create_chunks or not
\* at all.
C16_RejectedAtStartup ==
    (/\ call.op \in {"settings", "create_chunks"}
     /\ ~valid_chunking(call.chunk_size, call.chunk_overlap))
        => ~call.accepted

(***************************************************************************)
(* Properties of the chunks, checked under SpecChunker.                    *)
(***************************************************************************)
IsChunked == call.op = "create_chunks" /\ ~call.raised

\* C17: every chunk create_chunks produces has at most chunk_size
\* characters.  (The last separator is "", so the smallest unit is one
\* character and no unit is longer than a chunk size the splitter accepts.)
C17_ChunkSizeBound ==
    IsChunked
        => \A i \in DOMAIN call.chunks : Len(call.chunks[i]) <= call.chunk_size

\* A document longer than the chunk size, cut into several chunks of which
\* one is as long as the chunk size.
C17_Witness ==
    /\ IsChunked
    /\ call.chunk_size > 1
    /\ Len(call.content) > call.chunk_size
    /\ Len(call.chunks) > 1
    /\ \E i \in DOMAIN call.chunks : Len(call.chunks[i]) = call.chunk_size

\* The chunks, laid over the text in their order, each at a place where it
\* occurs and none after a gap, cover the text up to its last character:
\* start is the least place of the next chunk, covered the last character
\* covered so far.
RECURSIVE Covers(_, _, _, _)
Covers(text, chunks, start, covered) ==
    IF chunks = <<>> THEN covered = Len(text)
    ELSE \E s \in start..(covered + 1) :
            /\ occurs_at(Head(chunks), text, s)
            /\ Covers(text, Tail(chunks), s,
                      max_(covered, s + Len(Head(chunks)) - 1))

\* C18: the chunks of a document, without their overlaps, put together give
\* the document back: no character is dropped, separators and whitespace at
\* the chunk boundaries included; an empty document gives zero chunks and
\* no error.
C18_Coverage ==
    (IsChunked /\ valid_chunking(call.chunk_size, call.chunk_overlap))
        => /\ Covers(call.content, call.chunks, 1, 0)
           /\ call.content = <<>> => call.chunks = <<>>

\* The part of C18 about the empty document.
C18_EmptyDocument ==
    (call.op = "create_chunks" /\ call.content = <<>>
     /\ valid_chunking(call.chunk_size, call.chunk_overlap))
        => (~call.raised /\ call.chunks = <<>>)

(***************************************************************************)
(* compare_rankings on two lists of results of which neither needs to come *)
(* from the other.  The chunk ids of a list are pairwise distinct, as the  *)
(* ids of the results of one query are.                                    *)
(***************************************************************************)
MaxRanked == 3       \* longest list handed to compare_rankings
MaxRankedId == 3     \* chunk ids of these lists are 0..MaxRankedId

RankedLists ==
    {ids \in SeqsUpTo(0..MaxRankedId, MaxRanked) :
        \A i, j \in DOMAIN ids : ids[i] = ids[j] => i = j}

\* The results with the chunk ids of a list.
ResultsOf(ids) ==
    [i \in DOMAIN ids |->
        SearchResult(ContentOf(ids[i]), DocOf(ids[i]), ids[i], PageOf(ids[i]),
                     ONE \div 2)]

InitCompare ==
    /\ settings_top_k = DefaultTopK
    /\ collection = NoCollection
    /\ cleared = "no"
    /\ globals = NoGlobals
    /\ threads = NoThreads
    /\ \E original_ids, reranked_ids \in RankedLists :
          call = [op |-> "input", original |-> ResultsOf(original_ids),
                  reranked |-> ResultsOf(reranked_ids)]

CompareLists ==
    /\ call.op = "input"
    /\ call' = [op |-> "compare_rankings", original |-> call.original,
                reranked |-> call.reranked,
                metrics |-> compare_rankings(call.original, call.reranked)]
    /\ UNCHANGED <<settings_top_k, collection, cleared, globals, threads>>

NextCompare == CompareLists

SpecCompare == InitCompare /\ [][NextCompare]_vars

IdsOf(results) == {results[i].chunk_id : i \in DOMAIN results}

CommonIds == IdsOf(call.original) \cap IdsOf(call.reranked)

\* The position, from 0, of the result with a chunk id in a list that holds
\* the id once.
PositionOf(results, id) ==
    (CHOOSE i \in DOMAIN results : results[i].chunk_id = id) - 1

Displacement(id) ==
    Abs(PositionOf(call.reranked, id) - PositionOf(call.original, id))

RECURSIVE TotalDisplacement(_)
TotalDisplacement(ids) ==
    IF ids = {} THEN 0
    ELSE LET id == CHOOSE x \in ids : TRUE
         IN  Displacement(id) + TotalDisplacement(ids \ {id})

\* C19: the average rank displacement compare_rankings reports is exactly
\* the arithmetic mean of |new index - old index| over the chunk ids in both
\* lists, ids in one list only left out of the sum and the divisor, and 0
\* when no id is common.  (avg_rank_change is in units of 0.01.)
C19_ExactMean ==
    call.op = "compare_rankings"
        => IF CommonIds = {} THEN call.metrics.avg_rank_change = 0
           ELSE call.metrics.avg_rank_change * Cardinality(CommonIds)
                    = 100 * TotalDisplacement(CommonIds)

\* What holds instead: the reported value is that mean rounded to two
\* decimal digits.
C19_MeanToTwoDigits ==
    call.op = "compare_rankings"
        => IF CommonIds = {} THEN call.metrics.avg_rank_change = 0
           ELSE 2 * Abs(call.metrics.avg_rank_change * Cardinality(CommonIds)
                        - 100 * TotalDisplacement(CommonIds))
                    <= Cardinality(CommonIds)

(***************************************************************************)
(* compare_rankings on the input and the output of rerank, checked under   *)
(* SpecRerank.                                                             *)
(***************************************************************************)
\* What C20 says of the metrics, but for the bound by final_k.
MetricsInRange ==
    LET m == call.metrics
        ids(results) == [i \in DOMAIN results |-> results[i].chunk_id]
    IN  /\ m.overlap = Cardinality(CommonIds)
        /\ m.overlap <= Len(call.reranked)
        /\ m.avg_rank_change >= 0
        /\ m.overlap_percentage >= 0
        /\ m.overlap_percentage <= 100 * 10
        /\ m.original_top_3 = Take(ids(call.original), 3)
        /\ m.reranked_top_3 = Take(ids(call.reranked), 3)

\* C20: for a candidate list and the list rerank produced from it with
\* final_k, compare_rankings reports as overlap the number of distinct chunk
\* ids common to both, at most final_k and at most len(reranked), an average
\* rank displacement that is not negative, an overlap percentage within
\* [0, 100], and as top-3 lists the first three chunk ids of each list.
C20_OverlapBounds ==
    (call.op = "compare_rankings")
        => (MetricsInRange /\ call.metrics.overlap <= call.top_k)

\* The same for a final_k of at least 1.
C20_OverlapBounds_Positive ==
    (call.op = "compare_rankings" /\ call.top_k >= 1)
        => (MetricsInRange /\ call.metrics.overlap <= call.top_k)

(***************************************************************************)
(* rag_chain.py: format_context.  A string is a sequence of pieces; the    *)
(* document name and the content of a result are one piece each, the       *)
(* empty string is <<>>.                                                   *)
(***************************************************************************)
NoContextSentinel == "No relevant documents found."
ContextDelimiter == "\n\n---\n\n"

\* str(n) of an integer n >= 0, one piece per decimal digit.
Digits == <<"0", "1", "2", "3", "4", "5", "6", "7", "8", "9">>

RECURSIVE str(_)
str(n) ==
    IF n < 10 THEN <<Digits[n + 1]>>
    ELSE str(n \div 10) \o <<Digits[(n % 10) + 1]>>

\* if result.page > 0
\* (has_page_label_always: the page named for page 0 too)
has_page_label_always(page) == page >= 0

has_page_label(page) == page > 0

source_label(result) ==
    <<"[Source: ", result.doc_name>>
    \o (IF has_page_label(result.page) THEN <<", Page: ">> \o str(result.page)
        ELSE <<>>)
    \o <<"]">>

\* f"{source_label}\n{result.content}"
context_part(result) == source_label(result) \o <<"\n", result.content>>

\* "\n\n---\n\n".join(context_parts)
RECURSIVE join_parts(_)
join_parts(context_parts) ==
    IF Len(context_parts) = 1 THEN Head(context_parts)
    ELSE Head(context_parts) \o <<ContextDelimiter>>
         \o join_parts(Tail(context_parts))

format_context(results) ==
    IF results = <<>> THEN <<NoContextSentinel>>
    ELSE join_parts([i \in DOMAIN results |-> context_part(results[i])])

InitContext ==
    /\ settings_top_k = DefaultTopK
    /\ collection = NoCollection
    /\ cleared = "no"
    /\ globals = NoGlobals
    /\ threads = NoThreads
    /\ \E results \in SeqsUpTo(CandidatePool, MaxCandidates) :
          call = [op |-> "input", results |-> results]

FormatContext ==
    /\ call.op = "input"
    /\ call' = [op |-> "format_context", results |-> call.results,
                context |-> format_context(call.results)]
    /\ UNCHANGED <<settings_top_k, collection, cleared, globals, threads>>

NextContext == FormatContext

SpecContext == InitContext /\ [][NextContext]_vars

\* The blocks of a context: the pieces between the delimiters; block is the
\* block being read.
RECURSIVE BlocksOf(_, _)
BlocksOf(context, block) ==
    IF context = <<>> THEN <<block>>
    ELSE IF Head(context) = ContextDelimiter
    THEN <<block>> \o BlocksOf(Tail(context), <<>>)
    ELSE BlocksOf(Tail(context), Append(block, Head(context)))

\* The block the claim describes for a result.
LabeledBlock(result) ==
    IF result.page > 0
    THEN <<"[Source: ", result.doc_name, ", Page: ">> \o str(result.page)
         \o <<"]", "\n", result.content>>
    ELSE <<"[Source: ", result.doc_name, "]", "\n", result.content>>

\* C21: format_context never returns the empty string; for no results it
\* returns the sentinel, and else one labeled block per result in the order
\* of the input, none dropped, merged or moved, the page named only when it
\* is above 0, the blocks separated by the delimiter.
C21_ContextBlocks ==
    call.op = "format_context"
        => /\ call.context # <<>>
           /\ call.results = <<>> => call.context = <<NoContextSentinel>>
           /\ call.results # <<>> =>
                 LET blocks == BlocksOf(call.context, <<>>)
                 IN  /\ Len(blocks) = Len(call.results)
                     /\ \A i \in DOMAIN blocks :
                           blocks[i] = LabeledBlock(call.results[i])

\* Results with and without a page, one of them twice, out of score order.
C21_Witness ==
    /\ call.op = "format_context"
    /\ Len(call.results) = 3
    /\ call.results[1] = call.results[3]
    /\ call.results[1].page = 0
    /\ call.results[2].page > 0
    /\ call.results[2].score > call.results[1].score

(***************************************************************************)
(* rag_chain.py: create_snippet(content, max_length).  The content is a    *)
(* sequence of characters, of letters and spaces.                          *)
(***************************************************************************)
MaxSnippetLength == 10   \* largest max_length
MaxContentLen == 11      \* longest content

Ellipsis == <<".", ".", ".">>

\* str.rfind(" "): the index, from 0, of the last space, -1 when there is
\* none.
rfind_space(text) ==
    LET at == {i \in DOMAIN text : text[i] = Space}
    IN  IF at = {} THEN -1
        ELSE (CHOOSE i \in at : \A j \in at : j <= i) - 1

\* if last_space > max_length * 0.7
cuts_at_space(last_space, max_length) == 10 * last_space > 7 * max_length

create_snippet(content, max_length) ==
    IF Len(content) <= max_length THEN content
    ELSE LET truncated == Take(content, max_length)
             last_space == rfind_space(truncated)
         IN  (IF cuts_at_space(last_space, max_length)
              THEN Take(truncated, last_space)
              ELSE truncated) \o Ellipsis

InitSnippet ==
    /\ settings_top_k = DefaultTopK
    /\ collection = NoCollection
    /\ cleared = "no"
    /\ globals = NoGlobals
    /\ threads = NoThreads
    /\ \E content \in SeqsUpTo({"a", Space}, MaxContentLen),
          max_length \in 1..MaxSnippetLength :
          call = [op |-> "input", content |-> content,
                  max_length |-> max_length]

CreateSnippet ==
    /\ call.op = "input"
    /\ call' = [op |-> "create_snippet", content |-> call.content,
                max_length |-> call.max_length,
                ret |-> create_snippet(call.content, call.max_length)]
    /\ UNCHANGED <<settings_top_k, collection, cleared, globals, threads>>

NextSnippet == CreateSnippet

SpecSnippet == InitSnippet /\ [][NextSnippet]_vars

\* The snippet of a content longer than max_length whose first max_length
\* characters are cut at their last space when cut says so of its index.
SnippetCutWhen(cut(_, _)) ==
    LET first == Take(call.content, call.max_length)
        last_space == rfind_space(first)
    IN  (IF last_space >= 0 /\ cut(last_space, call.max_length)
         THEN Take(first, last_space) ELSE first) \o Ellipsis

AtOrAfterThreshold(i, max_length) == 10 * i >= 7 * max_length

AfterThreshold(i, max_length) == 10 * i > 7 * max_length

\* C22: create_snippet returns the content unchanged when it has at most
\* max_length characters; else it takes the first max_length characters,
\* cuts them at the last space when that space is at or after position
\* 0.7 * max_length, exactly at it included, and appends "...".
C22_CutAtOrAfterThreshold ==
    call.op = "create_snippet"
        => call.ret = IF Len(call.content) <= call.max_length
                      THEN call.content
                      ELSE SnippetCutWhen(AtOrAfterThreshold)

\* What holds instead: the cut is made only for a space after that position.
C22_CutAfterThreshold ==
    call.op = "create_snippet"
        => call.ret = IF Len(call.content) <= call.max_length
                      THEN call.content
                      ELSE SnippetCutWhen(AfterThreshold)

(***************************************************************************)
(* The status of the ingest route, checked under Spec.                     *)
(***************************************************************************)
\* C23: an ingestion run that finds no data directory, or a data directory
\* that yields no documents, responds with status 404, not 500.  (A run
\* loads no documents in exactly these two cases.)
C23_NoDocumentsIs404 ==
    (call.op = "ingest" /\ call.documents = <<>>) => call.status = 404

(***************************************************************************)
(* The application (main.py) and the requests of its clients.  The app     *)
(* serves the routes declared on it and the routes of the routers it       *)
(* includes; a request to another path is answered 404 by the framework,   *)
(* a request to a served path with another method 405.                     *)
(***************************************************************************)
\* settings.reranker_initial_k
DefaultInitialK == 20

\* The least initial_k the request model of /ask-reranked accepts (ge=5).
MinInitialK == 5

\* @app.get("/") and @app.get("/health")
AppRoutes == {<<"GET", "/">>, <<"GET", "/health">>}

\* The route each router module declares.
RouterRoutes ==
    [ingest |-> {<<"POST", "/ingest">>},
     ask |-> {<<"POST", "/ask">>},
     ask_reranked |-> {<<"POST", "/ask-reranked">>}]

\* from app.routes import ingest, ask; app.include_router(...) for both.
IncludedRouters == {"ingest", "ask"}

Routes == AppRoutes \cup UNION {RouterRoutes[r] : r \in IncludedRouters}

\* The status with which the framework answers a request it cannot route,
\* 0 for a request it hands to the handler of the route.
dispatch(method, path) ==
    IF <<method, path>> \in Routes THEN 0
    ELSE IF \E r \in Routes : r[2] = path THEN 405
    ELSE 404

Unrouted(method, path) ==
    [op |-> "request", method |-> method, path |-> path,
     handler |-> "none", status |-> dispatch(method, path)]

\* routes/ask_reranked.py: ask_question_reranked(request):
\* [collection, answer, sources, initial_candidates, final_results,
\* order_changed]
ask_question_reranked(coll, request_initial_k, request_final_k, distance_to, predict, default) ==
    LET initial_k == or_default(request_initial_k, DefaultInitialK)
        final_k == or_default(request_final_k, default)
        found == search(coll, initial_k, distance_to, default)
        initial_results == found.ret
        reranked_results == rerank(initial_results, final_k, predict, default).ret
        ids(results) == [i \in DOMAIN results |-> results[i].chunk_id]
    IN  IF initial_results = <<>>
        THEN [collection |-> found.collection, answer |-> NoDocumentsAnswer,
              sources |-> <<>>, initial_candidates |-> 0, final_results |-> 0,
              order_changed |-> FALSE]
        ELSE [collection |-> found.collection, answer |-> GeneratedAnswer,
              sources |-> [i \in DOMAIN reranked_results |->
                              Source(reranked_results[i])],
              initial_candidates |-> Len(initial_results),
              final_results |-> Len(reranked_results),
              order_changed |-> ids(Take(initial_results, final_k))
                                # ids(reranked_results)]

\* The cross-encoders of the requests.
RequestPredicts == [Contents -> {0, 5 * ONE}]

InitApp ==
    /\ settings_top_k = DefaultTopK
    /\ collection = NoCollection
    /\ cleared = "no"
    /\ call = [op |-> "start"]
    /\ globals = NoGlobals
    /\ threads = NoThreads

\* GET /health
GetHealth ==
    /\ call' = IF dispatch("GET", "/health") = 0
               THEN [op |-> "request", method |-> "GET", path |-> "/health",
                     handler |-> "health_check", status |-> 200]
               ELSE Unrouted("GET", "/health")
    /\ UNCHANGED <<settings_top_k, collection, cleared, globals, threads>>

\* POST /ingest?clear_existing=...
PostIngest ==
    \E clear_existing \in BOOLEAN, loaded \in LoadResults,
       raises_on_duplicate \in BOOLEAN :
        LET r == ingest_documents(collection, clear_existing, loaded,
                                  raises_on_duplicate)
        IN  IF dispatch("POST", "/ingest") = 0
            THEN /\ collection' = r.collection
                 /\ call' = [op |-> "request", method |-> "POST",
                             path |-> "/ingest", handler |-> "ingest_documents",
                             status |-> r.status,
                             document_count |-> r.document_count]
                 /\ UNCHANGED <<settings_top_k, cleared, globals, threads>>
            ELSE /\ call' = Unrouted("POST", "/ingest")
                 /\ UNCHANGED <<settings_top_k, collection, cleared, globals,
                                threads>>

\* POST /ask, as ask_baseline of compare_endpoints.py sends it
PostAsk ==
    \E top_k \in 0..MaxK, distance_to \in Queries :
        LET r == ask(collection, top_k, distance_to, settings_top_k)
        IN  IF dispatch("POST", "/ask") = 0
            THEN /\ collection' = r.collection
                 /\ call' = [op |-> "request", method |-> "POST",
                             path |-> "/ask", handler |-> "ask_question",
                             status |-> 200, answer |-> r.answer,
                             sources |-> r.sources]
                 /\ UNCHANGED <<settings_top_k, cleared, globals, threads>>
            ELSE /\ call' = Unrouted("POST", "/ask")
                 /\ UNCHANGED <<settings_top_k, collection, cleared, globals,
                                threads>>

\* POST /ask-reranked, as ask_reranked of compare_endpoints.py sends it
PostAskReranked ==
    \E initial_k \in {0, MinInitialK}, final_k \in 0..MaxK,
       distance_to \in Queries, predict \in RequestPredicts :
        LET r == ask_question_reranked(collection, initial_k, final_k,
                                       distance_to, predict, settings_top_k)
        IN  IF dispatch("POST", "/ask-reranked") = 0
            THEN /\ collection' = r.collection
                 /\ call' = [op |-> "request", method |-> "POST",
                             path |-> "/ask-reranked",
                             handler |-> "ask_question_reranked",
                             status |-> 200, answer |-> r.answer,
                             sources |-> r.sources,
                             final_results |-> r.final_results]
                 /\ UNCHANGED <<settings_top_k, cleared, globals, threads>>
            ELSE /\ call' = Unrouted("POST", "/ask-reranked")
                 /\ UNCHANGED <<settings_top_k, collection, cleared, globals,
                                threads>>

NextApp == GetHealth \/ PostIngest \/ PostAsk \/ PostAskReranked

SpecApp == InitApp /\ [][NextApp]_vars

\* C24: a POST to /ask-reranked reaches the two-stage handler
\* ask_question_reranked.
C24_AskRerankedServed ==
    (call.op = "request" /\ call.method = "POST"
     /\ call.path = "/ask-reranked")
        => (call.handler = "ask_question_reranked" /\ call.status # 404)


(***************************************************************************)
(* Ingestion runs against a server that may fail.  POST /ingest runs the   *)
(* whole of ingest_documents(): clear_collection() when clear_existing is  *)
(* set, then load_documents(), create_chunks(), add_chunks() and           *)
(* get_collection_stats(), all inside one try block whose handlers turn    *)
(* FileNotFoundError into 404 and every other exception into 500.          *)
(* delete_ok, add_ok and stats_ok say whether the server answers during    *)
(* the delete, the write and the count of the run.                         *)
(***************************************************************************)
\* The response of a run that ended with status and left the index as c.
ingest_response(c, g, status, chunks, document_count) ==
    [collection |-> c, globals |-> g, status |-> status, chunks |-> chunks,
     chunks_created |-> Len(chunks), document_count |-> document_count]

\* The part of ingest_documents() after the documents are loaded.
ingest_loaded(c, g, documents, raises, add_ok, stats_ok, ctor_connects) ==
    LET chunks == create_chunks(documents)
        added == add_chunks_with_backend(c, g, add_ok, ctor_connects, chunks,
                                         raises)
        stats == get_collection_stats_with_backend(added.collection,
                                                   added.globals, stats_ok,
                                                   ctor_connects)
    IN  IF added.raised
        THEN ingest_response(added.collection, added.globals, 500, chunks, 0)
        ELSE IF stats.raised
        THEN ingest_response(stats.collection, stats.globals, 500, chunks, 0)
        ELSE ingest_response(stats.collection, stats.globals, 200, chunks,
                             stats.ret)

\* The clear at the start of the run: "if clear_existing: clear_collection()".
clear_first(coll, g, clear_existing, delete_ok, ctor_connects) ==
    IF clear_existing
    THEN clear_collection_with_backend(coll, g, delete_ok, ctor_connects)
    ELSE returned(coll, g, <<>>)

\* ingest_documents(clear_existing) of routes/ingest.py.
ingest_run(coll, g, clear_existing, loaded, raises, server, ctor_connects) ==
    LET first == clear_first(coll, g, clear_existing, server.delete_ok,
                             ctor_connects)
        c1 == first.collection
        g1 == first.globals
    IN  IF first.raised THEN ingest_response(c1, g1, 500, <<>>, 0)
        ELSE IF loaded.missing THEN ingest_response(c1, g1, 404, <<>>, 0)
        ELSE IF loaded.documents = <<>>
        THEN ingest_response(c1, g1, 500, <<>>, 0)
        ELSE ingest_loaded(c1, g1, loaded.documents, raises, server.add_ok,
                           server.stats_ok, ctor_connects)

\* What the server does during the three calls of a run: it answers all of
\* them or fails during one.
Servers ==
    {s \in [delete_ok : BOOLEAN, add_ok : BOOLEAN, stats_ok : BOOLEAN] :
        Cardinality({f \in DOMAIN s : ~s[f]}) <= 1}

Answering == [delete_ok |-> TRUE, add_ok |-> TRUE, stats_ok |-> TRUE]

\* Whether chromadb.HttpClient(...) contacts the server matters only to the
\* call that constructs the client.
ConstructorKinds(g) ==
    IF g.instance["get_chroma_client"] = 0 THEN BOOLEAN ELSE {FALSE}

InitIngest ==
    /\ settings_top_k = DefaultTopK
    /\ collection = NoCollection
    /\ cleared = "no"
    /\ call = [op |-> "start", only_clearing |-> TRUE]
    /\ globals = NoGlobals
    /\ threads = NoThreads

\* One POST /ingest.  index_unchanged says that the run left the entries
\* of the index as it found them; only_clearing says that every run so far was called with
\* clear_existing=True.
IngestRun ==
    \E clear_existing, raises_on_duplicate \in BOOLEAN,
       ctor_connects \in ConstructorKinds(globals),
       loaded \in LoadResults, server \in Servers :
        LET r == ingest_run(collection, globals, clear_existing, loaded,
                            raises_on_duplicate, server, ctor_connects)
        IN  /\ collection' = r.collection
            /\ globals' = r.globals
            /\ call' = [op |-> "ingest_run",
                        clear_existing |-> clear_existing,
                        only_clearing |-> call.only_clearing /\ clear_existing,
                        server |-> server, status |-> r.status,
                        chunks |-> r.chunks,
                        chunks_created |-> r.chunks_created,
                        document_count |-> r.document_count,
                        index_unchanged |->
                            r.collection.entries = collection.entries]
            /\ UNCHANGED <<settings_top_k, cleared, threads>>

NextIngest == IngestRun

SpecIngest == InitIngest /\ [][NextIngest]_vars

\* C25: an ingestion run that fails leaves the index exactly as it was
\* before the run: after a failed run called with clear_existing=True,
\* here one during which the server answers every call, the entries stored
\* earlier are still there.
C25_FailedRunKeepsIndex ==
    (call.op = "ingest_run" /\ call.status # 200 /\ call.clear_existing
     /\ call.server = Answering)
        => call.index_unchanged

\* What holds of a failed run: with clear_existing=False the runs that fail
\* before the write (directory missing, no documents, the server not
\* answering the write) leave the entries as they were.
C25_FailedAppendKeepsIndex ==
    (call.op = "ingest_run" /\ call.status # 200 /\ ~call.clear_existing
     /\ (call.chunks = <<>> \/ ~call.server.add_ok))
        => call.index_unchanged

\* The index holds exactly the chunks, in their order, under the ids
\* chunk_0 .. chunk_(n-1).
HoldsExactly(entries, chunks) ==
    /\ Len(entries) = Len(chunks)
    /\ StoredIds(entries) = {<<"chunk", i>> : i \in 0..(Len(chunks) - 1)}
    /\ \A i \in DOMAIN chunks :
          /\ entries[i].id = chunk_key(chunks[i])
          /\ entries[i].document = chunks[i].content
          /\ entries[i].metadata = chunks[i].metadata

\* C26: after a sequence of ingestion runs with clear_existing=True whose
\* last run succeeds, the index holds exactly the chunks of that run:
\* count() is its chunks_created, the ids are chunk_0 .. chunk_(n-1), and
\* no entry of an earlier run remains.
C26_LastRunOnly ==
    (call.op = "ingest_run" /\ call.only_clearing /\ call.status = 200)
        => /\ HoldsExactly(collection.entries, call.chunks)
           /\ call.document_count = call.chunks_created

\* What holds: the same, for a last run whose delete the server answered.
C26_LastRunOnly_Deleted ==
    (call.op = "ingest_run" /\ call.clear_existing /\ call.status = 200
     /\ call.server.delete_ok)
        => /\ HoldsExactly(collection.entries, call.chunks)
           /\ call.document_count = call.chunks_created

\* C27: the cached index client is only ever a client whose connection
\* test succeeded: whenever _client is not None, a heartbeat() on it has
\* returned, so a get_chroma_client() call whose heartbeat fails leaves
\* the cache empty.
C27_CachedClientTested ==
    globals.instance["get_chroma_client"] # 0
        => globals.instance["get_chroma_client"] \in globals.tested

\* What holds: a client is constructed at most once more than clients have
\* passed the test, so only the first failing call constructs one.
C27_OneUntestedClient ==
    globals.constructed["get_chroma_client"]
        <= Cardinality(globals.tested) + 1

====
